---------------------------- MODULE Spec2Model ----------------------------
(***************************************************************************)
(* fast_localtime: fastkst_localtime.c                                     *)
(*                                                                         *)
(* A model of __offtime64, fastkst_localtime and fastkst_localtime_safe.   *)
(* Every call is executed in steps by a thread; the threads own their      *)
(* output record (struct tm), their err_code cell and their errno.         *)
(*                                                                         *)
(* The C code computes on int64_t.  TLC's integers are 32 bits wide, so    *)
(* an int64_t value is kept here as a sign and a little-endian sequence of *)
(* limbs (section "int64_t arithmetic"); the operators below compute the   *)
(* exact results of the C operators +, -, *, / and % (truncating), which   *)
(* is what the machine computes as long as no result leaves the int64_t    *)
(* range (I64Range states that range).                                     *)
(***************************************************************************)
EXTENDS Integers, Sequences, FiniteSets, TLC

-----------------------------------------------------------------------------
(* int64_t arithmetic                                                      *)

\* radix of one limb; limb * 146097 + carry stays below 2^31
Base == 100 * 100

Limb0(m) == IF m = << >> THEN 0 ELSE Head(m)
Tail0(m) == IF m = << >> THEN << >> ELSE Tail(m)

RECURSIVE MNorm(_)
\* the magnitude without leading (most significant) zero limbs
MNorm(m) ==
    IF m = << >> THEN << >>
    ELSE IF m[Len(m)] = 0 THEN MNorm(SubSeq(m, 1, Len(m) - 1))
    ELSE m

RECURSIVE MOfNat(_)
\* the magnitude of a natural number below 2^31
MOfNat(n) == IF n = 0 THEN << >> ELSE << n % Base >> \o MOfNat(n \div Base)

RECURSIVE MAddC(_, _, _)
MAddC(a, b, c) ==
    IF a = << >> /\ b = << >>
    THEN (IF c = 0 THEN << >> ELSE << c >>)
    ELSE LET x == Limb0(a) + Limb0(b) + c
         IN  << x % Base >> \o MAddC(Tail0(a), Tail0(b), x \div Base)

RECURSIVE MSubB(_, _, _)
\* a - b - borrow for magnitudes with a >= b + borrow
MSubB(a, b, borrow) ==
    IF a = << >> /\ b = << >>
    THEN << >>
    ELSE LET x == Limb0(a) - Limb0(b) - borrow
         IN  << x % Base >> \o MSubB(Tail0(a), Tail0(b), IF x < 0 THEN 1 ELSE 0)

RECURSIVE MCmpAt(_, _, _)
\* compares two magnitudes of equal length from limb i downwards: -1, 0, 1
MCmpAt(a, b, i) ==
    IF i = 0 THEN 0
    ELSE IF a[i] < b[i] THEN -1
    ELSE IF a[i] > b[i] THEN 1
    ELSE MCmpAt(a, b, i - 1)

MCmp(a, b) ==
    IF Len(a) < Len(b) THEN -1
    ELSE IF Len(a) > Len(b) THEN 1
    ELSE MCmpAt(a, b, Len(a))

RECURSIVE MMulC(_, _, _)
\* magnitude times a small natural k (k <= 146097), plus carry
MMulC(a, k, c) ==
    IF a = << >>
    THEN MOfNat(c)
    ELSE LET x == Head(a) * k + c
         IN  << x % Base >> \o MMulC(Tail(a), k, x \div Base)

RECURSIVE MDivMod(_, _)
\* long division of a magnitude by a small natural k (0 < k <= 146097)
MDivMod(a, k) ==
    IF a = << >>
    THEN [q |-> << >>, r |-> 0]
    ELSE LET hi  == MDivMod(Tail(a), k)
             cur == hi.r * Base + Head(a)
         IN  [q |-> << cur \div k >> \o hi.q, r |-> cur % k]

\* an int64_t value: sign and normalised magnitude (zero is not negative)
Mk(neg, mag) ==
    LET m == MNorm(mag) IN [neg |-> neg /\ m # << >>, mag |-> m]

\* the int64_t value of a small integer
I(n) == IF n < 0 THEN Mk(TRUE, MOfNat(0 - n)) ELSE Mk(FALSE, MOfNat(n))

Neg(a) == Mk(~a.neg, a.mag)

Add(a, b) ==
    IF a.neg = b.neg
    THEN Mk(a.neg, MAddC(a.mag, b.mag, 0))
    ELSE IF MCmp(a.mag, b.mag) >= 0
         THEN Mk(a.neg, MSubB(a.mag, b.mag, 0))
         ELSE Mk(b.neg, MSubB(b.mag, a.mag, 0))

Sub(a, b) == Add(a, Neg(b))

\* a * k for a small integer k
Mul(a, k) ==
    IF k < 0 THEN Mk(~a.neg, MMulC(a.mag, 0 - k, 0))
    ELSE Mk(a.neg, MMulC(a.mag, k, 0))

\* C's a / k for a small k > 0: the quotient truncated toward zero
Div(a, k) == Mk(a.neg, MDivMod(a.mag, k).q)

\* C's a % k for a small k > 0: a small integer with the sign of a
Mod(a, k) ==
    LET r == MDivMod(a.mag, k).r IN IF a.neg THEN 0 - r ELSE r

Lt(a, b) ==
    IF a.neg # b.neg THEN a.neg
    ELSE IF a.neg THEN MCmp(a.mag, b.mag) > 0
    ELSE MCmp(a.mag, b.mag) < 0

Le(a, b) == ~Lt(b, a)

RECURSIVE MToNat(_)
MToNat(m) == IF m = << >> THEN 0 ELSE Head(m) + Base * MToNat(Tail(m))

\* the small integer of an int64_t value known to lie within (-2^31, 2^31)
Small(a) == IF a.neg THEN 0 - MToNat(a.mag) ELSE MToNat(a.mag)

RECURSIVE DecM(_, _)
DecM(digits, acc) ==
    IF digits = << >> THEN acc
    ELSE DecM(Tail(digits), Add(Mul(acc, 10), I(Head(digits))))

\* the int64_t value written in decimal digits, most significant first
Dec(digits) == DecM(digits, I(0))

-----------------------------------------------------------------------------
(* Constants of the program                                                *)

NULL == 0
EINVAL == 22
EOVERFLOW == 75

SECS_PER_HOUR == 60 * 60
SECS_PER_DAY == SECS_PER_HOUR * 24

\* const long int kst_offset = 3600 * 9
kst_offset == 3600 * 9

\* limits.h, as int64_t values
INT_MAX == Dec(<<2, 1, 4, 7, 4, 8, 3, 6, 4, 7>>)
INT_MIN == Sub(Neg(INT_MAX), I(1))

\* the (int) conversion of an int64_t value: the value modulo 2^32, in
\* [INT_MIN, INT_MAX]
CastInt(a) ==
    LET d1 == MDivMod(a.mag, 65536)
        d2 == MDivMod(d1.q, 65536)
        two32 == Mul(I(65536), 65536)
        low == Add(Mul(I(d2.r), 65536), I(d1.r))   \* |a| mod 2^32
        u == IF a.neg /\ low # I(0) THEN Sub(two32, low) ELSE low
    IN  IF Lt(INT_MAX, u) THEN Sub(u, two32) ELSE u

\* a time_t of 32 bits
time_t_32(v) == CastInt(v)

\* the value a time_t parameter receives: time_t is 64 bits wide ("supports
\* 64-bit"), so every int64_t value arrives unchanged
time_t(v) == v

\* __isleap(year)
isleap(year) ==
    Mod(year, 4) = 0 /\ (Mod(year, 100) # 0 \/ Mod(year, 400) = 0)

\* the table with the row of common years in both rows
mon_yday_common_rows ==
    << << 0, 31, 59, 90, 120, 151, 181, 212, 243, 273, 304, 334, 365 >>,
       << 0, 31, 59, 90, 120, 151, 181, 212, 243, 273, 304, 334, 365 >> >>

\* __mon_yday[leap][m] is at mon_yday[leap + 1][m + 1]
mon_yday ==
    << << 0, 31, 59, 90, 120, 151, 181, 212, 243, 273, 304, 334, 365 >>,
       << 0, 31, 60, 91, 121, 152, 182, 213, 244, 274, 305, 335, 366 >> >>

\* DIV with the quotient left truncated toward zero
DIV_truncating(a, b) == Div(a, b)

\* #define DIV(a, b) ((a) / (b) - ((a) % (b) < 0))
DIV(a, b) == Sub(Div(a, b), I(IF Mod(a, b) < 0 THEN 1 ELSE 0))

\* the leap count without the century rule
LEAPS_every_fourth_year(yy) == DIV(yy, 4)

\* #define LEAPS_THRU_END_OF(y) (DIV (y, 4) - DIV (y, 100) + DIV (y, 400))
LEAPS_THRU_END_OF(yy) == Add(Sub(DIV(yy, 4), DIV(yy, 100)), DIV(yy, 400))

\* the renormalisation without its second loop (rem >= SECS_PER_DAY)
Renormalize_no_carry(d, r) ==
    IF r < 0 THEN [days |-> Sub(d, I(1)), rem |-> r + SECS_PER_DAY]
    ELSE [days |-> d, rem |-> r]

RECURSIVE Renormalize(_, _)
\* the two while loops on rem: rem is brought into [0, SECS_PER_DAY)
Renormalize(d, r) ==
    IF r < 0 THEN Renormalize(Sub(d, I(1)), r + SECS_PER_DAY)
    ELSE IF r >= SECS_PER_DAY THEN Renormalize(Add(d, I(1)), r - SECS_PER_DAY)
    ELSE [days |-> d, rem |-> r]

\* the weekday counted from a Wednesday
Weekday_wrong_anchor(d) ==
    LET w == Mod(Add(I(3), d), 7) IN IF w < 0 THEN w + 7 ELSE w

\* the weekday left as the remainder of C, negative before the epoch
Weekday_c_remainder(d) == Mod(Add(I(4), d), 7)

\* tp->tm_wday = (int)((4 + days) % 7); if (tp->tm_wday < 0) tp->tm_wday += 7
Weekday(d) ==
    LET w == Mod(Add(I(4), d), 7) IN IF w < 0 THEN w + 7 ELSE w

\* the condition of the year loop: days < 0 || days >= (__isleap (y) ? 366 : 365)
OutsideYear(d, yy) ==
    Lt(d, I(0)) \/ Le(I(IF isleap(yy) THEN 366 ELSE 365), d)

\* the guess made with years of 366 days for day counts beyond 2000
GuessYear_long_years(d, yy) ==
    LET len == IF Lt(d, I(-2000)) \/ Lt(I(2000), d) THEN 366 ELSE 365
    IN  Sub(Add(yy, Div(d, len)), I(IF Mod(d, len) < 0 THEN 1 ELSE 0))

\* int64_t yg = y + days / 365 - (days % 365 < 0)
GuessYear(d, yy) ==
    Sub(Add(yy, Div(d, 365)), I(IF Mod(d, 365) < 0 THEN 1 ELSE 0))

\* the correction that counts 365 days for every year between y and yg
AdjustDays_no_leap_days(d, yy, yg) == Sub(d, Mul(Sub(yg, yy), 365))

\* days -= ((yg - y) * 365 + LEAPS_THRU_END_OF (yg - 1) - LEAPS_THRU_END_OF (y - 1))
AdjustDays(d, yy, yg) ==
    Sub(d, Sub(Add(Mul(Sub(yg, yy), 365), LEAPS_THRU_END_OF(Sub(yg, I(1)))),
               LEAPS_THRU_END_OF(Sub(yy, I(1)))))

\* the range check without the base year 1900
YearOverflows_no_base(yy) == Lt(yy, INT_MIN) \/ Lt(INT_MAX, yy)

\* y < (int64_t)INT_MIN + 1900 || y > (int64_t)INT_MAX + 1900
YearOverflows(yy) ==
    Lt(yy, Add(INT_MIN, I(1900))) \/ Lt(Add(INT_MAX, I(1900)), yy)

RECURSIVE MonthScan(_, _, _)
\* for (y = 11; days < (long int) ip[y]; --y) continue;
MonthScan(ip, d, m) == IF d < ip[m + 1] THEN MonthScan(ip, d, m - 1) ELSE m

-----------------------------------------------------------------------------
(* Bounds and inputs                                                       *)

\* number of threads of the thread test
NumThreads == 2

Threads == 1 .. NumThreads

\* the thread that runs main()
MainThread == 1

\* memset(tp, 0, sizeof(struct tm))
ZeroTm ==
    [tm_sec |-> 0, tm_min |-> 0, tm_hour |-> 0, tm_mday |-> 0, tm_mon |-> 0,
     tm_year |-> I(0), tm_wday |-> 0, tm_yday |-> 0, tm_isdst |-> 0,
     tm_gmtoff |-> 0, tm_zone |-> "NULL"]

\* a record left over from an earlier use (struct tm result2 of the benchmark)
UsedTm ==
    [tm_sec |-> 41, tm_min |-> 42, tm_hour |-> 13, tm_mday |-> 27, tm_mon |-> 8,
     tm_year |-> I(99), tm_wday |-> 5, tm_yday |-> 269, tm_isdst |-> 1,
     tm_gmtoff |-> 3600, tm_zone |-> "CET"]

\* what the caller's record may hold before a call
PriorRecords == {ZeroTm, UsedTm}

EntryPoints == {"fastkst_localtime", "fastkst_localtime_safe"}

\* the sample instants, as seconds since the epoch
Times ==
    {
      Dec(<<0>>),
        \* 0: 1970-01-01 09:00:00 wday 4 yday 0; 0 loop iterations
      Dec(<<1, 7, 3, 5, 6, 5, 7, 2, 0, 0>>),
        \* 1735657200: 2025-01-01 00:00:00 wday 3 yday 0; 1 loop iterations
      Dec(<<2, 1, 4, 7, 4, 5, 1, 2, 4, 7>>),
        \* 2147451247: 2038-01-19 03:14:07 wday 2 yday 18; 1 loop iterations
      Dec(<<2, 1, 4, 7, 4, 5, 1, 2, 4, 8>>),
        \* 2147451248: 2038-01-19 03:14:08 wday 2 yday 18; 1 loop iterations
      Dec(<<4, 1, 0, 2, 4, 1, 2, 4, 0, 0>>),
        \* 4102412400: 2100-01-01 00:00:00 wday 5 yday 0; 1 loop iterations
      Dec(<<3, 2, 5, 0, 3, 6, 4, 7, 6, 0, 0>>),
        \* 32503647600: 3000-01-01 00:00:00 wday 3 yday 0; 1 loop iterations
      Neg(Dec(<<1, 1, 8, 8, 0, 0>>)),
        \* -118800: 1969-12-31 00:00:00 wday 3 yday 364; 1 loop iterations
      Neg(Dec(<<2, 2, 0, 9, 0, 2, 1, 2, 0, 0>>)),
        \* -2209021200: 1900-01-01 00:00:00 wday 1 yday 0; 2 loop iterations
      Dec(<<2, 1, 4, 7, 4, 8, 3, 6, 4, 7>>),
        \* 2147483647: 2038-01-19 12:14:07 wday 2 yday 18; 1 loop iterations
      Dec(<<2, 1, 4, 7, 4, 8, 3, 6, 4, 8>>),
        \* 2147483648: 2038-01-19 12:14:08 wday 2 yday 18; 1 loop iterations
      Neg(Dec(<<1>>)),
        \* -1: 1970-01-01 08:59:59 wday 4 yday 0; 0 loop iterations
      Neg(Dec(<<3, 2, 4, 0, 0>>)),
        \* -32400: 1970-01-01 00:00:00 wday 4 yday 0; 0 loop iterations
      Neg(Dec(<<3, 2, 4, 0, 1>>)),
        \* -32401: 1969-12-31 23:59:59 wday 3 yday 364; 1 loop iterations
      Dec(<<5, 3, 9, 9, 9>>),
        \* 53999: 1970-01-01 23:59:59 wday 4 yday 0; 0 loop iterations
      Dec(<<5, 4, 0, 0, 0>>),
        \* 54000: 1970-01-02 00:00:00 wday 5 yday 1; 0 loop iterations
      Dec(<<1, 7, 0, 9, 2, 1, 8, 7, 9, 9>>),
        \* 1709218799: 2024-02-29 23:59:59 wday 4 yday 59; 1 loop iterations
      Dec(<<1, 7, 0, 9, 2, 1, 8, 8, 0, 0>>),
        \* 1709218800: 2024-03-01 00:00:00 wday 5 yday 60; 1 loop iterations
      Dec(<<1, 6, 7, 7, 5, 5, 3, 2, 0, 0>>),
        \* 1677553200: 2023-02-28 12:00:00 wday 2 yday 58; 1 loop iterations
      Dec(<<1, 6, 7, 7, 5, 9, 6, 4, 0, 0>>),
        \* 1677596400: 2023-03-01 00:00:00 wday 3 yday 59; 1 loop iterations
      Dec(<<1, 7, 3, 5, 6, 5, 7, 1, 9, 9>>),
        \* 1735657199: 2024-12-31 23:59:59 wday 2 yday 365; 2 loop iterations
      Dec(<<9, 5, 1, 7, 7, 2, 0, 2, 8>>),
        \* 951772028: 2000-02-29 06:07:08 wday 2 yday 59; 1 loop iterations
      Neg(Dec(<<2, 2, 0, 3, 9, 2, 3, 6, 0, 1>>)),
        \* -2203923601: 1900-02-28 23:59:59 wday 3 yday 58; 1 loop iterations
      Neg(Dec(<<2, 2, 0, 3, 9, 2, 3, 6, 0, 0>>)),
        \* -2203923600: 1900-03-01 00:00:00 wday 4 yday 59; 1 loop iterations
      Dec(<<4, 1, 0, 7, 4, 2, 7, 3, 2, 3>>),
        \* 4107427323: 2100-02-28 01:02:03 wday 0 yday 58; 1 loop iterations
      Dec(<<4, 1, 0, 7, 5, 1, 0, 0, 0, 0>>),
        \* 4107510000: 2100-03-01 00:00:00 wday 1 yday 59; 1 loop iterations
      Neg(Dec(<<6, 2, 1, 3, 5, 6, 2, 9, 2, 0, 0>>)),
        \* -62135629200: 1-01-01 00:00:00 wday 1 yday 0; 2 loop iterations
      Neg(Dec(<<6, 2, 1, 3, 5, 6, 2, 9, 2, 0, 1>>)),
        \* -62135629201: 0-12-31 23:59:59 wday 0 yday 365; 3 loop iterations
      Neg(Dec(<<6, 2, 1, 6, 2, 1, 0, 7, 1, 9, 9>>)),
        \* -62162107199: 0-02-29 13:00:01 wday 2 yday 59; 2 loop iterations
      Neg(Dec(<<6, 2, 1, 6, 7, 2, 5, 1, 6, 0, 1>>)),
        \* -62167251601: -1-12-31 23:59:59 wday 5 yday 364; 2 loop iterations
      Neg(Dec(<<7, 4, 7, 8, 4, 9, 3, 4, 8, 0, 0>>)),
        \* -74784934800: -400-02-29 00:00:00 wday 2 yday 59; 2 loop iterations
      Neg(Dec(<<7, 4, 8, 0, 7, 2, 7, 5, 1, 7, 0>>)),
        \* -74807275170: -401-06-15 10:20:30 wday 2 yday 165; 2 loop iterations
      Dec(<<3, 1, 5, 5, 6, 8, 8, 9, 8, 4, 8, 7, 5, 0, 7, 6, 7>>),
        \* 31556889848750767: 1000000000-07-04 05:06:07 wday 2 yday 185; 3 loop iterations
      Neg(Dec(<<3, 1, 5, 5, 7, 0, 1, 4, 1, 3, 8, 3, 1, 1, 1, 4, 1>>)),
        \* -31557014138311141: -1000000000-11-30 23:00:59 wday 4 yday 334; 3 loop iterations
      Dec(<<6, 7, 7, 6, 8, 0, 3, 6, 1, 9, 1, 6, 4, 4, 3, 9, 9>>),
        \* 67768036191644399: 2147485547-12-31 23:59:59 wday 3 yday 364; 4 loop iterations
      Dec(<<6, 7, 7, 6, 8, 0, 3, 6, 1, 9, 1, 6, 4, 4, 4, 0, 0>>),
        \* 67768036191644400: year overflow; 3 loop iterations
      Neg(Dec(<<6, 7, 7, 6, 8, 0, 4, 0, 6, 0, 9, 7, 7, 3, 2, 0, 0>>)),
        \* -67768040609773200: -2147481748-01-01 00:00:00 wday 4 yday 0; 4 loop iterations
      Neg(Dec(<<6, 7, 7, 6, 8, 0, 4, 0, 6, 0, 9, 7, 7, 3, 2, 0, 1>>)),
        \* -67768040609773201: year overflow; 3 loop iterations
      Dec(<<4, 7, 5, 2, 4, 7, 6, 2, 8, 6, 2>>),
        \* 47524762862: 3476-01-01 12:01:02 wday 6 yday 0; 3 loop iterations
      Dec(<<4, 7, 5, 2, 4, 6, 7, 6, 4, 6, 2>>),
        \* 47524676462: 3475-12-31 12:01:02 wday 5 yday 364; 2 loop iterations
      Neg(Dec(<<4, 7, 5, 8, 7, 8, 9, 9, 5, 3, 8>>)),
        \* -47587899538: 461-12-31 12:01:02 wday 6 yday 364; 3 loop iterations
      Neg(Dec(<<4, 7, 5, 8, 7, 8, 1, 3, 1, 3, 8>>)),
        \* -47587813138: 462-01-01 12:01:02 wday 0 yday 0; 2 loop iterations
      Dec(<<1, 1, 4, 3, 3, 0, 8, 1, 6, 9, 6, 2, 6, 5, 0, 8, 6, 2>>),
        \* 114330816962650862: year overflow; 5 loop iterations
      Dec(<<9, 2, 2, 3, 3, 7, 2, 0, 3, 6, 8, 5, 4, 7, 7, 5, 8, 0, 7>>),
        \* 9223372036854775807: year overflow; 4 loop iterations
      Neg(Dec(<<9, 2, 2, 3, 3, 7, 2, 0, 3, 6, 8, 5, 4, 7, 7, 5, 8, 0, 8>>)) 
        \* -9223372036854775808: year overflow; 4 loop iterations
    }

T_EPOCH == Dec(<<0>>)
T_YEAR_OVERFLOW == Dec(<<6, 7, 7, 6, 8, 0, 3, 6, 1, 9, 1, 6, 4, 4, 4, 0, 0>>)

\* the instants the threads of the thread test convert
ThreadTimes == {T_EPOCH, T_YEAR_OVERFLOW}

-----------------------------------------------------------------------------
(* State                                                                   *)

VARIABLES
    pc,        \* pc[th]: where thread th is in its call
    entry,     \* entry[th]: the entry point thread th called
    t,         \* t[th]: argument t (time_t)
    tp,        \* tp[th]: argument tp, NULL or the address of a record
    err_code,  \* err_code[th]: argument err_code, NULL or the address of an int
    days,      \* days[th], rem[th], y[th]: locals of __offtime64
    rem,
    y,
    ret,       \* ret[th]: the value returned to the caller
    iters,     \* iters[th]: iterations of the year loop in this call
    tm,        \* tm[a]: the struct tm at address a (one per thread)
    err,       \* err[a]: the int at address a (one per thread)
    errno,     \* errno[l]: errno at location l
    pre        \* pre[th]: tm, err and errno of thread th when the call began

vars == << pc, entry, t, tp, err_code, days, rem, y, ret, iters, tm, err,
           errno, pre >>

\* one errno for the whole process
ErrnoLoc_shared(th) == MainThread

\* errno is thread-local (errno.h): each thread reads and writes its own
ErrnoLoc(th) == th

Init ==
    /\ pc = [th \in Threads |-> "idle"]
    /\ entry = [th \in Threads |-> "none"]
    /\ t = [th \in Threads |-> I(0)]
    /\ tp = [th \in Threads |-> NULL]
    /\ err_code = [th \in Threads |-> NULL]
    /\ days = [th \in Threads |-> I(0)]
    /\ rem = [th \in Threads |-> 0]
    /\ y = [th \in Threads |-> I(0)]
    /\ ret = [th \in Threads |-> 0]
    /\ iters = [th \in Threads |-> 0]
    /\ tm = [a \in Threads |-> ZeroTm]
    /\ err = [a \in Threads |-> 0]
    /\ errno = [l \in Threads |-> 0]
    /\ pre = [th \in Threads |-> [tm |-> ZeroTm, err |-> 0, errno |-> 0]]

-----------------------------------------------------------------------------
(* Operations                                                              *)

\* the caller of thread th calls entry point f with (tt, p, e)
Invoke(th, f, tt, p, e) ==
    /\ pc' = [pc EXCEPT ![th] =
                 IF f = "fastkst_localtime_safe" THEN "safe_entry" ELSE "kst_entry"]
    /\ entry' = [entry EXCEPT ![th] = f]
    /\ t' = [t EXCEPT ![th] = tt]
    /\ tp' = [tp EXCEPT ![th] = p]
    /\ err_code' = [err_code EXCEPT ![th] = e]
    /\ pre' = [pre EXCEPT ![th] =
                  [tm |-> tm[th], err |-> err[th], errno |-> errno[ErrnoLoc(th)]]]
    /\ UNCHANGED << days, rem, y, ret, iters, tm, err, errno >>

\* main() between two calls: it is done with the last result, and its record
\* is zeroed (memset in test_fastkst_localtime) or left as used (result2 of
\* the benchmark)
Prepare(th) ==
    /\ pc[th] \in {"idle", "done"}
    /\ \E prior \in PriorRecords : tm' = [tm EXCEPT ![th] = prior]
    /\ pc' = [pc EXCEPT ![th] = "ready"]
    /\ entry' = [entry EXCEPT ![th] = "none"]
    /\ t' = [t EXCEPT ![th] = I(0)]
    /\ tp' = [tp EXCEPT ![th] = NULL]
    /\ err_code' = [err_code EXCEPT ![th] = NULL]
    /\ days' = [days EXCEPT ![th] = I(0)]
    /\ rem' = [rem EXCEPT ![th] = 0]
    /\ y' = [y EXCEPT ![th] = I(0)]
    /\ ret' = [ret EXCEPT ![th] = 0]
    /\ iters' = [iters EXCEPT ![th] = 0]
    /\ UNCHANGED << err, errno, pre >>

\* main(): a call of any entry point on any sample instant, with or without
\* a record and an err_code location
Call(th) ==
    /\ pc[th] = "ready"
    /\ \E f \in EntryPoints, tt \in Times, p \in {NULL, th}, e \in {NULL, th} :
          Invoke(th, f, tt, p, e)

\* a thread of the thread test: one call on its own, zeroed record;
\* fastkst_localtime_safe gets the thread's err_code location
ThreadCall(th) ==
    /\ pc[th] = "idle"
    /\ \E f \in EntryPoints, tt \in ThreadTimes, p \in {NULL, th} :
          /\ p = NULL => tt = T_EPOCH
          /\ Invoke(th, f, tt, p,
                    IF f = "fastkst_localtime_safe" THEN th ELSE NULL)

\* fastkst_localtime_safe, up to its call of fastkst_localtime
SafeEntry(th) ==
    /\ pc[th] = "safe_entry"
    /\ IF tp[th] = NULL
       THEN /\ err' = IF err_code[th] # NULL
                      THEN [err EXCEPT ![err_code[th]] = EINVAL]
                      ELSE err
            /\ ret' = [ret EXCEPT ![th] = 0]
            /\ pc' = [pc EXCEPT ![th] = "done"]
            /\ tm' = tm
       ELSE /\ tm' = [tm EXCEPT ![tp[th]] = ZeroTm]
            /\ pc' = [pc EXCEPT ![th] = "kst_entry"]
            /\ UNCHANGED << err, ret >>
    /\ UNCHANGED << entry, t, tp, err_code, days, rem, y, iters, errno, pre >>

\* fastkst_localtime, up to its call of __offtime64
KstEntry(th) ==
    /\ pc[th] = "kst_entry"
    /\ IF tp[th] = NULL
       THEN /\ errno' = [errno EXCEPT ![ErrnoLoc(th)] = EINVAL]
            /\ ret' = [ret EXCEPT ![th] = 0]
            /\ pc' = [pc EXCEPT ![th] =
                         IF entry[th] = "fastkst_localtime_safe"
                         THEN "safe_ret" ELSE "done"]
       ELSE /\ pc' = [pc EXCEPT ![th] = "split"]
            /\ UNCHANGED << errno, ret >>
    /\ UNCHANGED << entry, t, tp, err_code, days, rem, y, iters, tm, err, pre >>

\* __offtime64: the day/time split, tm_hour, tm_min, tm_sec, tm_wday, y = 1970
OfftimeSplit(th) ==
    /\ pc[th] = "split"
    /\ IF tp[th] = NULL
       THEN /\ errno' = [errno EXCEPT ![ErrnoLoc(th)] = EINVAL]
            /\ ret' = [ret EXCEPT ![th] = 0]
            /\ pc' = [pc EXCEPT ![th] = "kst_ret"]
            /\ UNCHANGED << days, rem, y, tm >>
       ELSE LET n == Renormalize(Div(time_t(t[th]), SECS_PER_DAY),
                                 Mod(time_t(t[th]), SECS_PER_DAY) + kst_offset)
            IN  /\ days' = [days EXCEPT ![th] = n.days]
                /\ rem' = [rem EXCEPT ![th] = n.rem % SECS_PER_HOUR]
                /\ tm' = [tm EXCEPT ![tp[th]] =
                             [@ EXCEPT !.tm_hour = n.rem \div SECS_PER_HOUR,
                                       !.tm_min = (n.rem % SECS_PER_HOUR) \div 60,
                                       !.tm_sec = (n.rem % SECS_PER_HOUR) % 60,
                                       !.tm_wday = Weekday(n.days)]]
                /\ y' = [y EXCEPT ![th] = I(1970)]
                /\ pc' = [pc EXCEPT ![th] = "year"]
                /\ UNCHANGED << errno, ret >>
    /\ UNCHANGED << entry, t, tp, err_code, iters, err, pre >>

\* __offtime64: one iteration of the year loop
YearLoop(th) ==
    /\ pc[th] = "year"
    /\ OutsideYear(days[th], y[th])
    /\ LET yg == GuessYear(days[th], y[th])
       IN  /\ days' = [days EXCEPT ![th] = AdjustDays(days[th], y[th], yg)]
           /\ y' = [y EXCEPT ![th] = yg]
    /\ iters' = [iters EXCEPT ![th] = @ + 1]
    /\ UNCHANGED << pc, entry, t, tp, err_code, rem, ret, tm, err, errno, pre >>

\* __offtime64 after the year loop: the tm_year range check, then tm_year,
\* tm_yday, tm_mon and tm_mday
OfftimeFinish(th) ==
    /\ pc[th] = "year"
    /\ ~OutsideYear(days[th], y[th])
    /\ IF YearOverflows(y[th])
       THEN /\ errno' = [errno EXCEPT ![ErrnoLoc(th)] = EOVERFLOW]
            /\ ret' = [ret EXCEPT ![th] = 0]
            /\ UNCHANGED << days, y, tm >>
       ELSE LET ip == mon_yday[IF isleap(y[th]) THEN 2 ELSE 1]
                yd == Small(days[th])
                m  == MonthScan(ip, yd, 11)
            IN  /\ tm' = [tm EXCEPT ![tp[th]] =
                             [@ EXCEPT !.tm_year = CastInt(Sub(y[th], I(1900))),
                                       !.tm_yday = yd,
                                       !.tm_mon = m,
                                       !.tm_mday = (yd - ip[m + 1]) + 1]]
                /\ days' = [days EXCEPT ![th] = I(yd - ip[m + 1])]
                /\ y' = [y EXCEPT ![th] = I(m)]
                /\ ret' = [ret EXCEPT ![th] = 1]
                /\ errno' = errno
    /\ pc' = [pc EXCEPT ![th] = "kst_ret"]
    /\ UNCHANGED << entry, t, tp, err_code, rem, iters, err, pre >>

\* fastkst_localtime after __offtime64 returned
KstReturn(th) ==
    /\ pc[th] = "kst_ret"
    /\ tm' = IF ret[th] = 1
             THEN [tm EXCEPT ![tp[th]] =
                      [@ EXCEPT !.tm_gmtoff = kst_offset,
                                !.tm_zone = "KST",
                                !.tm_isdst = 0]]
             ELSE tm
    /\ pc' = [pc EXCEPT ![th] =
                 IF entry[th] = "fastkst_localtime_safe" THEN "safe_ret" ELSE "done"]
    /\ UNCHANGED << entry, t, tp, err_code, days, rem, y, ret, iters, err, errno, pre >>

\* the return of fastkst_localtime_safe with *err_code = local_errno stored
\* after every call, 0 on success
SafeReturn_stores_always(th) ==
    /\ pc[th] = "safe_ret"
    /\ err' = IF err_code[th] # NULL
              THEN [err EXCEPT ![err_code[th]] =
                       IF ret[th] = 0 THEN errno[ErrnoLoc(th)] ELSE 0]
              ELSE err
    /\ pc' = [pc EXCEPT ![th] = "done"]
    /\ UNCHANGED << entry, t, tp, err_code, days, rem, y, ret, iters, tm, errno, pre >>

\* fastkst_localtime_safe after fastkst_localtime returned
SafeReturn(th) ==
    /\ pc[th] = "safe_ret"
    /\ err' = IF ret[th] = 0 /\ err_code[th] # NULL
              THEN [err EXCEPT ![err_code[th]] = errno[ErrnoLoc(th)]]
              ELSE err
    /\ pc' = [pc EXCEPT ![th] = "done"]
    /\ UNCHANGED << entry, t, tp, err_code, days, rem, y, ret, iters, tm, errno, pre >>

\* the steps of a call in progress
Step(th) ==
    \/ SafeEntry(th)
    \/ KstEntry(th)
    \/ OfftimeSplit(th)
    \/ YearLoop(th)
    \/ OfftimeFinish(th)
    \/ KstReturn(th)
    \/ SafeReturn(th)

\* main() converting the sample instants, one call at a time
Next == Prepare(MainThread) \/ Call(MainThread) \/ Step(MainThread)

Spec == Init /\ [][Next]_vars

\* the thread test: the threads run their calls concurrently
NextMT == \E th \in Threads : ThreadCall(th) \/ Step(th)

SpecMT == Init /\ [][NextMT]_vars

\* one record shared by all threads (a static struct tm)
ThreadRecord_static(th) == MainThread

\* struct tm result of thread_test_func: a local of each thread
ThreadRecord(th) == th

\* thread_test_func: one pass of its loop up to the call; the thread zeroes
\* its record and calls fastkst_localtime_safe(data->test_time, &result, NULL).
\* main() gives every thread of a round the same test_time; here each pass
\* takes any of ThreadTimes, which covers main()'s rounds and any other caller
ThreadLoop(th) ==
    /\ pc[th] \in {"idle", "done"}
    /\ \E tt \in ThreadTimes : t' = [t EXCEPT ![th] = tt]
    /\ tm' = [tm EXCEPT ![ThreadRecord(th)] = ZeroTm]
    /\ pc' = [pc EXCEPT ![th] = "safe_entry"]
    /\ entry' = [entry EXCEPT ![th] = "fastkst_localtime_safe"]
    /\ tp' = [tp EXCEPT ![th] = ThreadRecord(th)]
    /\ err_code' = [err_code EXCEPT ![th] = NULL]
    /\ days' = [days EXCEPT ![th] = I(0)]
    /\ rem' = [rem EXCEPT ![th] = 0]
    /\ y' = [y EXCEPT ![th] = I(0)]
    /\ ret' = [ret EXCEPT ![th] = 0]
    /\ iters' = [iters EXCEPT ![th] = 0]
    /\ pre' = [pre EXCEPT ![th] =
                  [tm |-> ZeroTm, err |-> err[th], errno |-> errno[ErrnoLoc(th)]]]
    /\ UNCHANGED << err, errno >>

\* the thread test as main() runs it: every thread repeats its conversion
NextThreadTest == \E th \in Threads : ThreadLoop(th) \/ Step(th)

SpecThreadTest == Init /\ [][NextThreadTest]_vars

-----------------------------------------------------------------------------
(* The functions executed alone, from call to return (tp # NULL)           *)

RECURSIVE YearResolve(_, _)
\* the year loop of __offtime64, run to its exit
YearResolve(d, yy) ==
    IF OutsideYear(d, yy)
    THEN LET yg == GuessYear(d, yy) IN YearResolve(AdjustDays(d, yy, yg), yg)
    ELSE [days |-> d, y |-> yy]

\* __offtime64(tt, offset, tp) on a record holding r: the return value, the
\* record on return and the errno it sets (0: errno is not written)
offtime64(tt, offset, r) ==
    LET n  == Renormalize(Div(time_t(tt), SECS_PER_DAY),
                          Mod(time_t(tt), SECS_PER_DAY) + offset)
        r1 == [r EXCEPT !.tm_hour = n.rem \div SECS_PER_HOUR,
                        !.tm_min = (n.rem % SECS_PER_HOUR) \div 60,
                        !.tm_sec = (n.rem % SECS_PER_HOUR) % 60,
                        !.tm_wday = Weekday(n.days)]
        yr == YearResolve(n.days, I(1970))
    IN  IF YearOverflows(yr.y)
        THEN [ret |-> 0, tm |-> r1, code |-> EOVERFLOW]
        ELSE LET ip == mon_yday[IF isleap(yr.y) THEN 2 ELSE 1]
                 yd == Small(yr.days)
                 m  == MonthScan(ip, yd, 11)
             IN  [ret |-> 1,
                  tm |-> [r1 EXCEPT !.tm_year = CastInt(Sub(yr.y, I(1900))),
                                    !.tm_yday = yd,
                                    !.tm_mon = m,
                                    !.tm_mday = (yd - ip[m + 1]) + 1],
                  code |-> 0]

\* fastkst_localtime(tt, tp) on a record holding r
fastkst_localtime(tt, r) ==
    LET o == offtime64(tt, kst_offset, r)
    IN  IF o.ret = 1
        THEN [o EXCEPT !.tm = [@ EXCEPT !.tm_gmtoff = kst_offset,
                                        !.tm_zone = "KST",
                                        !.tm_isdst = 0]]
        ELSE o

\* fastkst_localtime_safe(tt, tp, err_code) on a record holding r
fastkst_localtime_safe(tt, r) == fastkst_localtime(tt, ZeroTm)

-----------------------------------------------------------------------------
(* The proleptic Gregorian calendar, stated independently of the program:  *)
(* days are counted in 400-year eras of 146097 days, in years that begin   *)
(* on 1 March.                                                             *)

\* floor(a / k) and a - k * floor(a / k), for a small k > 0
FloorDiv(a, k) ==
    IF a.neg /\ MDivMod(a.mag, k).r # 0 THEN Sub(Div(a, k), I(1)) ELSE Div(a, k)

FloorMod(a, k) == Small(Sub(a, Mul(FloorDiv(a, k), k)))

\* days from 1970-01-01 to the civil date (year, month 1..12, day 1..31)
CivilDays(year, month, day) ==
    LET yy  == IF month <= 2 THEN Sub(year, I(1)) ELSE year
        era == FloorDiv(yy, 400)
        yoe == FloorMod(yy, 400)
        mp  == IF month > 2 THEN month - 3 ELSE month + 9
        doy == ((153 * mp + 2) \div 5) + day - 1
        doe == yoe * 365 + (yoe \div 4) - (yoe \div 100) + doy
    IN  Add(Mul(era, 146097), I(doe - 719468))

\* the civil year of day number d (days since 1970-01-01)
CivilYear(d) ==
    LET z   == Add(d, I(719468))
        era == FloorDiv(z, 146097)
        doe == FloorMod(z, 146097)
        yoe == (doe - (doe \div 1460) + (doe \div 36524) - (doe \div 146096)) \div 365
        doy == doe - (365 * yoe + (yoe \div 4) - (yoe \div 100))
        mp  == (5 * doy + 2) \div 153
    IN  Add(Add(Mul(era, 400), I(yoe)), I(IF mp >= 10 THEN 1 ELSE 0))

\* the civil year of instant tt in the zone UTC+9
KstYear(tt) == CivilYear(FloorDiv(Add(tt, I(32400)), 86400))

\* the number of days of month m (0..11) of a year
DaysInMonth(year, m) ==
    IF m = 1
    THEN (IF FloorMod(year, 4) = 0 /\ (FloorMod(year, 100) # 0 \/ FloorMod(year, 400) = 0)
          THEN 29 ELSE 28)
    ELSE << 31, 0, 31, 30, 31, 30, 31, 31, 30, 31, 30, 31 >>[m + 1]

\* the year a record names
YearOf(r) == Add(r.tm_year, I(1900))

\* epoch seconds recomputed from a record's civil time in the zone UTC+9
SecondsOf(r) ==
    Sub(Add(Mul(CivilDays(YearOf(r), r.tm_mon + 1, r.tm_mday), 86400),
            I(r.tm_hour * 3600 + r.tm_min * 60 + r.tm_sec)),
        I(32400))

\* year, month (0..11), day, hour, minute, second of a record
Civil(r) ==
    << r.tm_year, r.tm_mon, r.tm_mday, r.tm_hour, r.tm_min, r.tm_sec >>

\* thread th has returned from a call that had a record to fill
Returned(th) == pc[th] = "done" /\ tp[th] # NULL

\* thread th has returned from a successful call
Succeeded(th) == Returned(th) /\ ret[th] = 1

\* every int64_t local of __offtime64 holds a value of the int64_t range
INT64_MAX == Dec(<<9, 2, 2, 3, 3, 7, 2, 0, 3, 6, 8, 5, 4, 7, 7, 5, 8, 0, 7>>)
I64Range ==
    \A th \in Threads :
        \A v \in {t[th], days[th], y[th]} :
            Le(Sub(Neg(INT64_MAX), I(1)), v) /\ Le(v, INT64_MAX)

-----------------------------------------------------------------------------
(* C1  Round trip: after every successful call, the epoch seconds          *)
(* recomputed from tm_year + 1900, tm_mon, tm_mday, tm_hour, tm_min and    *)
(* tm_sec under the proleptic Gregorian calendar, minus the offset 32400,  *)
(* are exactly t.                                                          *)
C1_RoundTrip ==
    \A th \in Threads : Succeeded(th) => SecondsOf(tm[tp[th]]) = t[th]

\* a successful conversion of an instant before year 1 has returned
C1_Witness ==
    \E th \in Threads :
        /\ Succeeded(th)
        /\ Lt(YearOf(tm[tp[th]]), I(1))
        /\ Lt(t[th], I(0))

(* C2  Record validity: after every successful call of either entry point  *)
(* all fields are in range at once: tm_mon 0..11, tm_mday 1..days of that  *)
(* month in the resolved year, tm_hour 0..23, tm_min and tm_sec 0..59,     *)
(* tm_wday 0..6, tm_yday 0..365 (0..364 in a common year), tm_gmtoff =     *)
(* 32400, tm_zone = "KST", tm_isdst = 0.                                   *)
C2_RecordValid ==
    \A th \in Threads :
        Succeeded(th) =>
            LET r == tm[tp[th]]
            IN  /\ r.tm_mon \in 0 .. 11
                /\ r.tm_mday >= 1
                /\ r.tm_mday <= DaysInMonth(YearOf(r), r.tm_mon)
                /\ r.tm_hour \in 0 .. 23
                /\ r.tm_min \in 0 .. 59
                /\ r.tm_sec \in 0 .. 59
                /\ r.tm_wday \in 0 .. 6
                /\ r.tm_yday >= 0
                /\ r.tm_yday <= 336 + DaysInMonth(YearOf(r), 1)
                /\ r.tm_gmtoff = 32400
                /\ r.tm_zone = "KST"
                /\ r.tm_isdst = 0

\* fastkst_localtime_safe has filled a used record with 31 December of a
\* leap year, 23:59:59
C2_Witness ==
    \E th \in Threads :
        /\ Succeeded(th)
        /\ entry[th] = "fastkst_localtime_safe"
        /\ pre[th].tm = UsedTm
        /\ tm[tp[th]].tm_yday = 365
        /\ tm[tp[th]].tm_mday = 31
        /\ tm[tp[th]].tm_hour = 23
        /\ tm[tp[th]].tm_sec = 59

(* C3  Epoch anchor: fastkst_localtime(0, tp) succeeds and produces        *)
(* 1970-01-01 09:00:00 with tm_wday = 4 (Thursday) and tm_yday = 0.        *)
C3_EpochAnchor ==
    \A th \in Threads :
        (Returned(th) /\ t[th] = T_EPOCH) =>
            /\ ret[th] = 1
            /\ Civil(tm[tp[th]]) = << I(70), 0, 1, 9, 0, 0 >>
            /\ tm[tp[th]].tm_wday = 4
            /\ tm[tp[th]].tm_yday = 0

\* fastkst_localtime(0, tp) has returned
C3_Witness ==
    \E th \in Threads :
        /\ Returned(th)
        /\ t[th] = T_EPOCH
        /\ entry[th] = "fastkst_localtime"
        /\ tm[tp[th]].tm_hour = 9

T_INT32_MAX == Dec(<<2, 1, 4, 7, 4, 8, 3, 6, 4, 7>>)
T_INT32_MAX_1 == Dec(<<2, 1, 4, 7, 4, 8, 3, 6, 4, 8>>)

T_1900 == Neg(Dec(<<2, 2, 0, 9, 0, 2, 1, 2, 0, 0>>))

(* C5  Negative range: fastkst_localtime(-2209021200, tp) succeeds and     *)
(* produces 1900-01-01 00:00:00 KST with tm_yday = 0.                      *)
C5_NegativeRange ==
    \A th \in Threads :
        (Returned(th) /\ t[th] = T_1900) =>
            /\ ret[th] = 1
            /\ Civil(tm[tp[th]]) = << I(0), 0, 1, 0, 0, 0 >>
            /\ tm[tp[th]].tm_yday = 0

\* fastkst_localtime(-2209021200, tp) has returned, after two iterations of
\* the year loop
C5_Witness ==
    \E th \in Threads :
        /\ Succeeded(th)
        /\ t[th] = T_1900
        /\ entry[th] = "fastkst_localtime"
        /\ iters[th] = 2

(* C6 as stated  Every sample instant of the test table converts to the    *)
(* KST civil time its description names: 1735657200 -> 2026-01-01          *)
(* 00:00:00, 2147451247 -> 2038-01-19 03:14:07, 2147451248 -> 2038-01-19   *)
(* 03:14:08, 4102412400 -> 2100-01-01 00:00:00, 32503647600 -> 3000-01-01  *)
(* 00:00:00, -118800 -> 1969-12-31 00:00:00.                               *)
C6_TestTable ==
    \A th \in Threads :
        \A s \in { << Dec(<<1, 7, 3, 5, 6, 5, 7, 2, 0, 0>>), << I(126), 0, 1, 0, 0, 0 >> >>,
                   << Dec(<<2, 1, 4, 7, 4, 5, 1, 2, 4, 7>>), << I(138), 0, 19, 3, 14, 7 >> >>,
                   << Dec(<<2, 1, 4, 7, 4, 5, 1, 2, 4, 8>>), << I(138), 0, 19, 3, 14, 8 >> >>,
                   << Dec(<<4, 1, 0, 2, 4, 1, 2, 4, 0, 0>>), << I(200), 0, 1, 0, 0, 0 >> >>,
                   << Dec(<<3, 2, 5, 0, 3, 6, 4, 7, 6, 0, 0>>), << I(1100), 0, 1, 0, 0, 0 >> >>,
                   << Neg(Dec(<<1, 1, 8, 8, 0, 0>>)), << I(69), 11, 31, 0, 0, 0 >> >> } :
            (Returned(th) /\ t[th] = s[1]) =>
                (ret[th] = 1 /\ Civil(tm[tp[th]]) = s[2])

(* C7 as stated  Invalid argument: with tp = NULL either entry point       *)
(* returns 0 and writes no record, and the caller can observe EINVAL       *)
(* afterwards: in errno after fastkst_localtime, in *err_code after        *)
(* fastkst_localtime_safe when err_code was supplied, and in errno when    *)
(* it was not.                                                             *)
C7_InvalidArgument ==
    \A th \in Threads :
        (pc[th] = "done" /\ tp[th] = NULL) =>
            /\ ret[th] = 0
            /\ tm[th] = pre[th].tm
            /\ entry[th] = "fastkst_localtime" => errno[ErrnoLoc(th)] = EINVAL
            /\ (entry[th] = "fastkst_localtime_safe" /\ err_code[th] # NULL) =>
                  err[err_code[th]] = EINVAL
            /\ (entry[th] = "fastkst_localtime_safe" /\ err_code[th] = NULL) =>
                  errno[ErrnoLoc(th)] = EINVAL

INT_YEAR_MIN == Add(INT_MIN, I(1900))
INT_YEAR_MAX == Add(INT_MAX, I(1900))

(* C8  Totality and overflow guard: a call with a record returns 1, or 0   *)
(* with errno = EOVERFLOW; it returns 0 exactly when the civil year of     *)
(* t + 32400 lies outside [INT_MIN + 1900, INT_MAX + 1900], and then       *)
(* tm_year has not been written: it holds what it held before the          *)
(* conversion began.                                                       *)
C8_OverflowGuard ==
    \A th \in Threads :
        Returned(th) =>
            LET year == KstYear(t[th])
                fits == Le(INT_YEAR_MIN, year) /\ Le(year, INT_YEAR_MAX)
            IN  /\ ret[th] \in {0, 1}
                /\ ret[th] = 1 <=> fits
                /\ ret[th] = 1 => YearOf(tm[tp[th]]) = year
                /\ ret[th] = 0 =>
                      /\ errno[ErrnoLoc(th)] = EOVERFLOW
                      /\ tm[tp[th]].tm_year =
                            IF entry[th] = "fastkst_localtime_safe"
                            THEN ZeroTm.tm_year ELSE pre[th].tm.tm_year

\* a call on the first second of year INT_MAX + 1901 has failed, and a used
\* record keeps its tm_year
C8_Witness ==
    \E th \in Threads :
        /\ Returned(th)
        /\ ret[th] = 0
        /\ KstYear(t[th]) = Add(INT_YEAR_MAX, I(1))
        /\ entry[th] = "fastkst_localtime"
        /\ tm[tp[th]].tm_year = UsedTm.tm_year

(* C9 as stated  Clean record on failure: whenever fastkst_localtime_safe  *)
(* is called with a record and returns 0, every field of the record is     *)
(* zero when the call returns.                                             *)
C9_CleanOnFailure ==
    \A th \in Threads :
        (Returned(th) /\ entry[th] = "fastkst_localtime_safe" /\ ret[th] = 0) =>
            tm[tp[th]] = ZeroTm

(* C10  Diagnostic isolation: with several threads calling concurrently,   *)
(* the code a failed fastkst_localtime_safe stores in *err_code is the     *)
(* failure kind of that same call, EINVAL for a NULL record and EOVERFLOW  *)
(* for a year overflow, whatever the other threads' failing calls do.      *)
C10_DiagnosticIsolation ==
    \A th \in Threads :
        (/\ pc[th] = "done"
         /\ entry[th] = "fastkst_localtime_safe"
         /\ ret[th] = 0
         /\ err_code[th] # NULL) =>
            err[err_code[th]] = IF tp[th] = NULL THEN EINVAL ELSE EOVERFLOW

\* a failed fastkst_localtime_safe has stored EOVERFLOW while another
\* thread's failed call has left EINVAL in its errno
C10_Witness ==
    \E th \in Threads, other \in Threads :
        /\ other # th
        /\ pc[th] = "done"
        /\ entry[th] = "fastkst_localtime_safe"
        /\ ret[th] = 0
        /\ tp[th] # NULL
        /\ err[err_code[th]] = EOVERFLOW
        /\ pc[other] = "done"
        /\ errno[ErrnoLoc(other)] = EINVAL

(* C11  Concurrency on independent records: with every thread repeating    *)
(* conversions into its own record, under every interleaving of the        *)
(* threads' steps, each returned call's return value and record are those  *)
(* of the same call for the same t executed alone.                         *)
C11_AsAlone ==
    \A th \in Threads :
        Returned(th) =>
            LET alone == fastkst_localtime_safe(t[th], pre[th].tm)
            IN  /\ ret[th] = alone.ret
                /\ tm[tp[th]] = alone.tm

\* one thread holds the result of a successful conversion and another the
\* outcome of a failed one, while the first has already converted before
C11_Witness ==
    \E th \in Threads, other \in Threads :
        /\ other # th
        /\ Succeeded(th)
        /\ tm[tp[th]].tm_hour = 9
        /\ Returned(other)
        /\ ret[other] = 0
        /\ tp[other] # tp[th]
        /\ pre[th].errno = EOVERFLOW

\* the Gregorian leap status of a year
GregorianLeap(year) ==
    FloorMod(year, 4) = 0 /\ (FloorMod(year, 100) # 0 \/ FloorMod(year, 400) = 0)

RECURSIVE CumulativeDays(_, _)
\* the number of days of a year that precede its month m (0..12)
CumulativeDays(year, m) ==
    IF m = 0 THEN 0 ELSE CumulativeDays(year, m - 1) + DaysInMonth(year, m - 1)

(* C12  Month and day of month: on success tm_mon is the one month m whose *)
(* cumulative-day entries, in the row of the resolved year's Gregorian     *)
(* leap status, satisfy table[m] <= tm_yday < table[m+1]; tm_mday is       *)
(* tm_yday - table[tm_mon] + 1; and the last day of February has tm_yday   *)
(* 59 in a leap year and 58 in a common year.                              *)
C12_MonthAndDay ==
    \A th \in Threads :
        Succeeded(th) =>
            LET r    == tm[tp[th]]
                leap == GregorianLeap(YearOf(r))
                row  == mon_yday[IF leap THEN 2 ELSE 1]
            IN  /\ \A m \in 0 .. 12 : row[m + 1] = CumulativeDays(YearOf(r), m)
                /\ r.tm_mon \in 0 .. 11
                /\ \A m \in 0 .. 11 :
                       (row[m + 1] <= r.tm_yday /\ r.tm_yday < row[m + 2])
                           <=> (m = r.tm_mon)
                /\ r.tm_mday = (r.tm_yday - row[r.tm_mon + 1]) + 1
                /\ (r.tm_mon = 1 /\ r.tm_mday = DaysInMonth(YearOf(r), 1))
                       => r.tm_yday = (IF leap THEN 59 ELSE 58)
                /\ (r.tm_mon = 2 /\ r.tm_mday = 1)
                       => r.tm_yday = (IF leap THEN 60 ELSE 59)

\* a conversion has returned 29 February of the leap year 2000
C12_Witness ==
    /\ Succeeded(MainThread)
    /\ t[MainThread] = Dec(<<9, 5, 1, 7, 7, 2, 0, 2, 8>>)
    /\ tm[tp[MainThread]].tm_mon = 1
    /\ tm[tp[MainThread]].tm_mday = 29
    /\ tm[tp[MainThread]].tm_yday = 59

(* C13 as stated: for every t the year loop executes its body at most 2    *)
(* times per call.                                                         *)
C13_Stated == \A th \in Threads : iters[th] <= 2

(* C13  Year-loop convergence bound: for every t the year loop executes    *)
(* its body at most 5 times per call, at most 4 times in a call that       *)
(* succeeds, and at most 2 times when the resolved year is one of          *)
(* 462 .. 3475.                                                            *)
C13_IterationBound ==
    \A th \in Threads :
        /\ iters[th] <= 5
        /\ Succeeded(th) =>
               /\ iters[th] <= 4
               /\ (Le(I(462), YearOf(tm[tp[th]])) /\ Le(YearOf(tm[tp[th]]), I(3475)))
                      => iters[th] <= 2

\* a call has returned after 5 iterations of the year loop
C13_Witness ==
    /\ pc[MainThread] = "done"
    /\ tp[MainThread] # NULL
    /\ iters[MainThread] = 5
    /\ ret[MainThread] = 0

\* the signed count of civil days from 1970-01-01 to the day of instant tt
\* in the zone UTC+9
CivilDayCount(tt) == FloorDiv(Add(tt, I(32400)), 86400)

(* C14  Weekday: for every t that converts successfully, tm_wday is        *)
(* (4 + D) mod 7 taken in 0..6 with floor semantics, where                 *)
(* D = floor((t + 32400) / 86400); this holds for negative D too.          *)
C14_Weekday ==
    \A th \in Threads :
        Succeeded(th) =>
            /\ tm[tp[th]].tm_wday \in 0 .. 6
            /\ tm[tp[th]].tm_wday = FloorMod(Add(I(4), CivilDayCount(t[th])), 7)

\* a conversion of an instant before the epoch whose 4 + D has a negative
\* remainder has returned: 1900-01-01, a Monday
C14_Witness ==
    /\ Succeeded(MainThread)
    /\ t[MainThread] = T_1900
    /\ CivilDayCount(t[MainThread]) = I(-25567)
    /\ tm[tp[MainThread]].tm_wday = 1

\* day count d is a day of the Gregorian year yy: 0 <= d < 365 or 366
InGregorianYear(d, yy) ==
    /\ Le(I(0), d)
    /\ Lt(d, I(IF GregorianLeap(yy) THEN 366 ELSE 365))

\* the absolute day that trial year yy and remaining day count d stand for
AbsoluteDay(d, yy) == Add(CivilDays(yy, 1, 1), d)

\* thread th is past the year loop of a call that had a record to fill
PastYearLoop(th) == pc[th] \in {"kst_ret", "safe_ret", "done"} /\ tp[th] # NULL

(* C15  Termination of the year loop: for every t the loop ends after      *)
(* finitely many iterations (no call runs a sixth); at the loop head,      *)
(* before and after every iteration, the days from 1970-01-01 to 1 January *)
(* of the trial year plus the remaining day count equal the civil day      *)
(* count of t; and on exit 0 <= remaining day count < 365 or 366 by the    *)
(* leap status of the resolved year.                                       *)
C15_YearLoop ==
    \A th \in Threads :
        /\ iters[th] <= 5
        /\ pc[th] = "year" =>
               /\ AbsoluteDay(days[th], y[th]) = CivilDayCount(t[th])
               /\ ~OutsideYear(days[th], y[th]) => InGregorianYear(days[th], y[th])
               /\ iters[th] = 5 => ~OutsideYear(days[th], y[th])
        /\ (PastYearLoop(th) /\ ret[th] = 0) =>
               /\ AbsoluteDay(days[th], y[th]) = CivilDayCount(t[th])
               /\ InGregorianYear(days[th], y[th])
        /\ (PastYearLoop(th) /\ ret[th] = 1) =>
               /\ AbsoluteDay(I(tm[tp[th]].tm_yday), YearOf(tm[tp[th]]))
                      = CivilDayCount(t[th])
               /\ InGregorianYear(I(tm[tp[th]].tm_yday), YearOf(tm[tp[th]]))

\* the loop is at its head after 4 iterations from a day count beyond the
\* year range and has one more to run
C15_Witness ==
    /\ pc[MainThread] = "year"
    /\ iters[MainThread] = 4
    /\ OutsideYear(days[MainThread], y[MainThread])
    /\ y[MainThread] # I(1970)

(* C16  Error-code frame on success: when fastkst_localtime_safe returns 1 *)
(* it leaves *err_code exactly as the caller had it at the call; it does   *)
(* not reset it to 0, so a code left by an earlier failed call is still    *)
(* there after a later successful call on the same err_code location.      *)
C16_ErrCodeFrame ==
    \A th \in Threads :
        (/\ pc[th] = "done"
         /\ entry[th] = "fastkst_localtime_safe"
         /\ ret[th] = 1) =>
            /\ err[th] = pre[th].err
            /\ err_code[th] # NULL => err[err_code[th]] = pre[th].err

\* a successful fastkst_localtime_safe has returned with an err_code
\* location that still holds the EOVERFLOW of an earlier failed call
C16_Witness ==
    /\ pc[MainThread] = "done"
    /\ entry[MainThread] = "fastkst_localtime_safe"
    /\ ret[MainThread] = 1
    /\ err_code[MainThread] # NULL
    /\ pre[MainThread].err = EOVERFLOW
    /\ err[err_code[MainThread]] = EOVERFLOW

=============================================================================
